---- MODULE Spec2Model ----
(***************************************************************************)
(* Model of the claim verification engine of the fake-news detector:       *)
(* NewsAnalyzer.analyze_news (src/analyzer.py) and its two callers, the    *)
(* HTTP endpoint analyze_text_endpoint (src/api.py) and the interactive    *)
(* front-end (src/app.py).                                                 *)
(*                                                                         *)
(* Strings are sequences of one-character strings.  Confidences are        *)
(* integers in thousandths (0.95 is 950); entailment probabilities are     *)
(* integers in hundredths (0.65 is 65).                                    *)
(***************************************************************************)
EXTENDS Integers, Sequences, FiniteSets, TLC

\* ------------------------------------------------------------------ bounds
\* most whitespace characters put before and after an input text
MaxPad == 1
\* most articles one search call returns (the code asks for pageSize 20)
MaxArticles == 1
\* most relation scores of one collection in the order-independence runs
MaxScores == 2
\* most sentences of a text given to extract_claims alone
MaxUnits == 3
\* most words of a text given to extract_keywords alone
MaxWords == 10
\* most words of a claim and of an evidence text given to _claim_mentioned
MaxMentionWords == 7

\* ------------------------------------------------------- program constants
\* extract_claims keeps sentences with len(s.strip()) > 20
MinClaimLen == 20
\* extract_claims falls back to text[:200]
ClaimFallbackLen == 200
\* extract_claims returns claims[:2]
MaxClaims == 2
\* analyze_text_endpoint rejects len(request.text.strip()) < 20
MinTextLen == 20
\* nli_score >= 0.65, in hundredths
NliThreshold == 65
\* min(0.95, 0.4 + 0.15 * n), in thousandths
ConfCeiling == 950
ConfBase == 400
ConfStep == 150
\* confidence = 0.15 when nothing was found
ConfNone == 150
\* min(0.8, 0.35 + 0.1 * abs(supporting - contradicting))
MixedCeiling == 800
MixedBase == 350
MixedStep == 100

\* analyze_url_endpoint rejects len(scraped_text) < 50
MinScrapedLen == 50
\* _claim_mentioned keeps tokens with len(t) > 3
MinTokenLen == 3
\* analyze_news: text[:2000]
DisplayCap == 2000
\* analyze_url_endpoint: scraped_text[:1000]
UrlDisplayCap == 1000
\* extract_keywords keeps words with len(w) > 4
MinKeywordLen == 4
\* extract_keywords stops at len(seen) >= 7
MaxKeywords == 7

Whitespace == {" "}
Terminators == {".", "!", "?"}

Min(a, b) == IF a <= b THEN a ELSE b
Abs(a) == IF a >= 0 THEN a ELSE 0 - a

\* ------------------------------------------------------------ str helpers
RECURSIVE LStrip(_)
LStrip(s) ==
    IF s # <<>> /\ Head(s) \in Whitespace THEN LStrip(Tail(s)) ELSE s

RECURSIVE RStrip(_)
RStrip(s) ==
    IF s # <<>> /\ s[Len(s)] \in Whitespace
    THEN RStrip(SubSeq(s, 1, Len(s) - 1))
    ELSE s

\* a mutant of Strip: the text is used as it came
StripNothing(s) == s

\* str.strip()
Strip(s) == RStrip(LStrip(s))

\* s[:n]
Take(s, n) == SubSeq(s, 1, Min(n, Len(s)))

Rep(ch, n) == [i \in 1..n |-> ch]

\* ------------------------------------------------------------ extract_claims
RECURSIVE SkipSpaces(_, _)
SkipSpaces(s, i) ==
    IF i <= Len(s) /\ s[i] \in Whitespace THEN SkipSpaces(s, i + 1) ELSE i

SetMin(S) == CHOOSE x \in S : \A y \in S : x <= y

\* where the next match of [\.!?]\s+ begins, from position i on; 0 if none
NextSplit(s, i) ==
    LET hits == { j \in i..(Len(s) - 1) :
                    s[j] \in Terminators /\ s[j + 1] \in Whitespace }
    IN  IF hits = {} THEN 0 ELSE SetMin(hits)

\* re.split(r'[\.!?]\s+', text): the pieces of s from position i on
RECURSIVE SplitSentences(_, _)
SplitSentences(s, i) ==
    LET j == NextSplit(s, i)
    IN  IF j = 0 THEN <<SubSeq(s, i, Len(s))>>
        ELSE <<SubSeq(s, i, j - 1)>> \o SplitSentences(s, SkipSpaces(s, j + 1))

LongEnough(s) == Len(Strip(s)) > MinClaimLen

\* a mutant of ExtractClaims: every long sentence is returned
ExtractClaimsUncapped(text) ==
    LET sentences == SplitSentences(text, 1)
        kept == SelectSeq(sentences, LongEnough)
        stripped == [i \in 1..Len(kept) |-> Strip(kept[i])]
    IN  IF stripped # <<>> THEN stripped
        ELSE <<Take(text, ClaimFallbackLen)>>

ExtractClaims(text) ==
    LET sentences == SplitSentences(text, 1)
        kept == SelectSeq(sentences, LongEnough)
        stripped == [i \in 1..Len(kept) |-> Strip(kept[i])]
    IN  IF stripped # <<>> THEN Take(stripped, MaxClaims)
        ELSE <<Take(text, ClaimFallbackLen)>>

\* ------------------------------------------------------------------ inputs
Pad(n) == Rep(" ", n)

\* nothing; 19 and 20 letters (no sentence is long enough: one fallback
\* claim); two sentences of 21 letters (two claims)
Bodies ==
    { <<>>,
      Rep("a", MinTextLen - 1),
      Rep("a", MinTextLen),
      Rep("a", MinClaimLen + 1) \o <<".", " ">> \o Rep("b", MinClaimLen + 1) }

Texts == { Pad(l) \o b \o Pad(t) : l \in 0..MaxPad, t \in 0..MaxPad, b \in Bodies }

\* --------------------------------------------------------------- _nli_check
NliLabels == {"contradiction", "neutral", "entailment"}
NliScores == {NliThreshold - 1, NliThreshold, 100}
\* what the inference does: it raises, or returns the argmax label and its
\* probability
NliInferences ==
    {[label |-> "raise", score |-> 0]} \cup [label : NliLabels, score : NliScores]

Unknown == [label |-> "unknown", score |-> 0]

\* _init_nli: the model handle after the call (True is returned iff it is
\* "Loaded")
InitNli(model, canImport, loadOk) ==
    IF model # "None" THEN model
    ELSE IF ~canImport THEN "None"
    ELSE IF loadOk THEN "Loaded" ELSE "None"

\* a mutant of NliCheck: an empty premise or hypothesis goes to the model
NliCheckEmpty(premiseGiven, hypothesisGiven, model, canImport, loadOk, infer) ==
    LET m == InitNli(model, canImport, loadOk)
        loading == IF model = "None" /\ canImport THEN {"nli_load"} ELSE {}
    IN  IF m = "None"
        THEN [r |-> Unknown, model |-> m, used |-> loading]
        ELSE [r |-> IF infer.label = "raise" THEN Unknown ELSE infer,
              model |-> m, used |-> loading \cup {"nli"}]

\* _nli_check(premise, hypothesis): the (label, score) returned, the model
\* handle afterwards and the collaborators called
NliCheck(premiseGiven, hypothesisGiven, model, canImport, loadOk, infer) ==
    IF ~premiseGiven \/ ~hypothesisGiven
    THEN [r |-> Unknown, model |-> model, used |-> {}]
    ELSE LET m == InitNli(model, canImport, loadOk)
             loading == IF model = "None" /\ canImport THEN {"nli_load"} ELSE {}
         IN  IF m = "None"
             THEN [r |-> Unknown, model |-> m, used |-> loading]
             ELSE [r |-> IF infer.label = "raise" THEN Unknown ELSE infer,
                   model |-> m, used |-> loading \cup {"nli"}]

\* ---------------------------------------------------------------- counting
\* a mutant of NliCount: a contradiction withdraws the support counted so far
NliCountResetting(cnt, r) ==
    IF r.label = "entailment" /\ r.score >= NliThreshold
    THEN [cnt EXCEPT !.s = @ + 1]
    ELSE IF r.label = "contradiction" /\ r.score >= NliThreshold
         THEN [s |-> 0, c |-> cnt.c + 1]
         ELSE cnt

\* the if/elif on the model's answer; cnt is [s |-> supporting,
\* c |-> contradicting]
NliCount(cnt, r) ==
    IF r.label = "entailment" /\ r.score >= NliThreshold
    THEN [cnt EXCEPT !.s = @ + 1]
    ELSE IF r.label = "contradiction" /\ r.score >= NliThreshold
         THEN [cnt EXCEPT !.c = @ + 1]
         ELSE cnt

Actionable(r) ==
    r.label \in {"entailment", "contradiction"} /\ r.score >= NliThreshold

\* one article of a search result: is its domain trusted, does
\* _claim_mentioned hold of title + description, does a contradiction term
\* occur in them, is content or description or title non-empty.  With all
\* three fields empty nothing is mentioned and no term occurs.
Articles ==
    { a \in [trusted : BOOLEAN, mentioned : BOOLEAN, contra : BOOLEAN,
             evidence : BOOLEAN] :
        ~a.evidence => (~a.mentioned /\ ~a.contra) }

\* the body of "for a in articles", r being what _nli_check returned
ArticleCount(cnt, a, r) ==
    LET h1 == IF a.trusted /\ a.mentioned THEN [cnt EXCEPT !.s = @ + 1] ELSE cnt
        h2 == IF a.trusted /\ a.contra THEN [h1 EXCEPT !.c = @ + 1] ELSE h1
    IN  IF a.evidence THEN NliCount(h2, r) ELSE h2

\* a mutant of WikiCount: the heuristic label is counted next to the model's
\* answer
WikiCountBoth(cnt, wiki_label, r) ==
    LET m == NliCount(cnt, r)
    IN  IF wiki_label = "REAL" THEN [m EXCEPT !.s = @ + 1]
        ELSE IF wiki_label = "FALSO" THEN [m EXCEPT !.c = @ + 1]
        ELSE m

\* the encyclopedia fallback: the model's answer when actionable, else the
\* heuristic label
WikiCount(cnt, wiki_label, r) ==
    IF Actionable(r) THEN NliCount(cnt, r)
    ELSE IF wiki_label = "REAL" THEN [cnt EXCEPT !.s = @ + 1]
    ELSE IF wiki_label = "FALSO" THEN [cnt EXCEPT !.c = @ + 1]
    ELSE cnt

\* --------------------------------------------------------------- wikipedia
\* what the checks of _wiki_check and _wiki_check_person read in a summary:
\* "fue presidente"/"fue el presidente" occurs, a year 19xx/20xx occurs,
\* "presidente desde <4 digits>" occurs, "fue" occurs, a contradiction term
\* occurs, the summary is not empty
Summaries ==
    { f \in [fuePresidente : BOOLEAN, years : BOOLEAN, desde : BOOLEAN,
             fue : BOOLEAN, contra : BOOLEAN, given : BOOLEAN] :
        /\ f.fuePresidente => f.fue
        /\ ~f.given =>
             (~f.fuePresidente /\ ~f.years /\ ~f.desde /\ ~f.fue /\ ~f.contra) }

\* a mutant of WikiLabel: a summary with no cue leaves the claim unknown
WikiLabelNeedsCue(asserts_current, f) ==
    IF asserts_current /\ (f.fuePresidente \/ (f.years /\ ~f.desde)) THEN "FALSO"
    ELSE IF asserts_current /\ f.desde /\ ~f.fue THEN "REAL"
    ELSE IF f.contra THEN "FALSO"
    ELSE "DESCONOCIDO"

\* the label both lookups compute from a retrieved summary
WikiLabel(asserts_current, f) ==
    IF asserts_current /\ (f.fuePresidente \/ (f.years /\ ~f.desde)) THEN "FALSO"
    ELSE IF asserts_current /\ f.desde /\ ~f.fue THEN "REAL"
    ELSE IF f.contra THEN "FALSO"
    ELSE "REAL"

\* what the search of the encyclopedia did
WikiOutcomes == {"raise", "no_results", "summary"}

\* (summary is non-empty, label) as returned by _wiki_check_person
WikiCheckPerson(outcome, asserts_current, f) ==
    IF outcome = "summary"
    THEN [given |-> f.given, label |-> WikiLabel(asserts_current, f)]
    ELSE [given |-> TRUE, label |-> "DESCONOCIDO"]

\* (summary is non-empty, label) as returned by _wiki_check
WikiCheck(outcome, asserts_current, f) ==
    IF outcome = "summary"
    THEN [given |-> f.given, label |-> WikiLabel(asserts_current, f)]
    ELSE [given |-> TRUE, label |-> "DESCONOCIDO"]

\* ------------------------------------------------------------ decision table
Capped(n) == Min(ConfCeiling, ConfBase + ConfStep * n)
Mixed(s, c) == Min(MixedCeiling, MixedBase + MixedStep * Abs(s - c))

\* mutants of Decide
DecideGE(s, c) ==
    IF s > 0 /\ c = 0 THEN [label |-> "REAL", confidence |-> Capped(s)]
    ELSE IF c >= s THEN [label |-> "FALSO", confidence |-> Capped(c)]
    ELSE IF s = 0 /\ c = 0 THEN [label |-> "DESCONOCIDO", confidence |-> ConfNone]
    ELSE [label |-> "DESCONOCIDO", confidence |-> Mixed(s, c)]

DecideFalsoBySupport(s, c) ==
    IF s > 0 /\ c = 0 THEN [label |-> "REAL", confidence |-> Capped(s)]
    ELSE IF c > s THEN [label |-> "FALSO", confidence |-> Capped(s)]
    ELSE IF s = 0 /\ c = 0 THEN [label |-> "DESCONOCIDO", confidence |-> ConfNone]
    ELSE [label |-> "DESCONOCIDO", confidence |-> Mixed(s, c)]

DecideMajority(s, c) ==
    IF s > c THEN [label |-> "REAL", confidence |-> Capped(s)]
    ELSE IF c > s THEN [label |-> "FALSO", confidence |-> Capped(c)]
    ELSE IF s = 0 /\ c = 0 THEN [label |-> "DESCONOCIDO", confidence |-> ConfNone]
    ELSE [label |-> "DESCONOCIDO", confidence |-> Mixed(s, c)]

DecideNoCeiling(s, c) ==
    IF s > 0 /\ c = 0 THEN [label |-> "REAL", confidence |-> ConfBase + ConfStep * s]
    ELSE IF c > s THEN [label |-> "FALSO", confidence |-> ConfBase + ConfStep * c]
    ELSE IF s = 0 /\ c = 0 THEN [label |-> "DESCONOCIDO", confidence |-> ConfNone]
    ELSE [label |-> "DESCONOCIDO", confidence |-> Mixed(s, c)]

DecideSignSlip(s, c) ==
    IF s > 0 /\ c = 0
    THEN [label |-> "REAL", confidence |-> Min(ConfCeiling, ConfBase - ConfStep * s)]
    ELSE IF c > s THEN [label |-> "FALSO", confidence |-> Capped(c)]
    ELSE IF s = 0 /\ c = 0 THEN [label |-> "DESCONOCIDO", confidence |-> ConfNone]
    ELSE [label |-> "DESCONOCIDO", confidence |-> Mixed(s, c)]

\* "Decidir etiqueta": label and round(confidence, 3) from the two counts.
\* Every confidence of the table is a multiple of 0.05, which rounding to
\* three decimals leaves alone.
Decide(s, c) ==
    IF s > 0 /\ c = 0 THEN [label |-> "REAL", confidence |-> Capped(s)]
    ELSE IF c > s THEN [label |-> "FALSO", confidence |-> Capped(c)]
    ELSE IF s = 0 /\ c = 0 THEN [label |-> "DESCONOCIDO", confidence |-> ConfNone]
    ELSE [label |-> "DESCONOCIDO", confidence |-> Mixed(s, c)]

\* a mutant of TooShort: the length is taken before trimming
TooShortUntrimmed(t) == Len(t) < MinTextLen

\* analyze_text_endpoint: len(request.text.strip()) < 20
TooShort(t) == Len(Strip(t)) < MinTextLen

\* -------------------------------------------------------------------- state
VARIABLES
    process,          \* "api": src/api.py serves requests; "app": src/app.py
    newsapi_key,      \* self.newsapi_key is set
    transformers_ok,  \* transformers and torch were imported
    spacy_ok,         \* spacy was imported
    nli_model,        \* self.nli_model: "None" or "Loaded"
    nlp,              \* self.nlp: "None", "Loaded" or "Blank"
    pc,               \* where the request is
    raw,              \* the text the caller handed over
    text,             \* analyze_news: text, after text.strip()
    lang,             \* analyze_news: lang
    claims,           \* analyze_news: claims
    ci,               \* index of the claim the for loop is at
    remaining,        \* articles of the current claim not yet looked at
    person,           \* _extract_person_from_claim returned a name
    wiki_summary,     \* analyze_news: wiki_summary is a non-empty string
    wiki_label,       \* analyze_news: wiki_label
    supporting,
    contradicting,
    label,
    confidence,
    error,            \* the exception analyze_news raised, or "none"
    response,         \* what the caller of the endpoint or the page got
    invoked,          \* the collaborators called during this analyze_news
    reached,          \* a search or an encyclopedia call of this request was answered
    retrieval,        \* calls made for the current claim: searches, the
                      \* documents the search returned, encyclopedia lookups
    scores,           \* order-independence runs: the relation scores to count
    pending,          \* order-independence runs: the scores not counted yet
    arg,              \* runs of one function: its input
    out,              \* runs of one function: its result
    world,            \* repeated-call runs: what every collaborator answers
    first             \* repeated-call runs: the result of the first call

vars ==
    <<process, newsapi_key, transformers_ok, spacy_ok, nli_model, nlp, pc, raw,
      text, lang, claims, ci, remaining, person, wiki_summary, wiki_label,
      supporting, contradicting, label, confidence, error, response, invoked,
      reached, retrieval, scores, pending, arg, out, world, first>>

env == <<process, newsapi_key, transformers_ok, spacy_ok>>
side == <<arg, out, world, first>>
order == <<scores, pending, side>>
\* no claim has been taken up yet
NoRetrieval == [claim |-> 0, searches |-> 0, docs |-> 0, lookups |-> 0]
wiki == <<wiki_summary, wiki_label>>

\* the locals of analyze_news before its first statement
Fresh ==
    /\ text = <<>>
    /\ lang = "none"
    /\ claims = <<>>
    /\ ci = 1
    /\ remaining = 0
    /\ person = FALSE
    /\ wiki_summary = FALSE
    /\ wiki_label = "none"
    /\ supporting = 0
    /\ contradicting = 0
    /\ label = "none"
    /\ confidence = 0
    /\ error = "none"
    /\ invoked = {}
    /\ reached = FALSE
    /\ retrieval = NoRetrieval

\* a new call: the locals of the call before are gone
Call ==
    /\ text' = <<>>
    /\ lang' = "none"
    /\ claims' = <<>>
    /\ ci' = 1
    /\ remaining' = 0
    /\ person' = FALSE
    /\ wiki_summary' = FALSE
    /\ wiki_label' = "none"
    /\ supporting' = 0
    /\ contradicting' = 0
    /\ label' = "none"
    /\ confidence' = 0
    /\ error' = "none"
    /\ invoked' = {}
    /\ reached' = FALSE
    /\ retrieval' = NoRetrieval

\* the module-level NewsAnalyzer(os.getenv("NEWSAPI_KEY")) of api.py, and the
\* fields __init__ sets
Init ==
    /\ process \in {"api", "app"}
    /\ newsapi_key \in BOOLEAN
    /\ transformers_ok \in BOOLEAN
    /\ spacy_ok \in BOOLEAN
    /\ nli_model = "None"
    /\ nlp = "None"
    /\ pc = "idle"
    /\ raw = <<>>
    /\ response = "none"
    /\ Fresh
    /\ scores = <<>>
    /\ pending = {}
    /\ arg = "none"
    /\ out = "none"
    /\ world = "none"
    /\ first = "none"

Idle == pc \in {"idle", "responded"}

\* POST /analyze_text up to the call of analyzer.analyze_news
AnalyzeTextEndpoint ==
    /\ process = "api"
    /\ Idle
    /\ \E t \in Texts :
        /\ raw' = t
        /\ IF TooShort(t)
           THEN pc' = "responded" /\ response' = "HTTP400"
           ELSE pc' = "enter" /\ response' = "none"
    /\ Call
    /\ UNCHANGED <<env, nli_model, nlp, order>>

\* app.py: "if texto:" and the button; a NewsAnalyzer is built for the click
AppAnalyze ==
    /\ process = "app"
    /\ Idle
    /\ \E t \in Texts :
        /\ t # <<>>
        /\ raw' = t
    /\ pc' = "enter"
    /\ response' = "none"
    /\ nli_model' = "None"
    /\ nlp' = "None"
    /\ Call
    /\ UNCHANGED <<env, order>>

\* analyze_news: text = text.strip(); if not text: raise ValueError
AnalyzeNewsEnter ==
    /\ pc = "enter"
    /\ text' = Strip(raw)
    /\ IF text' = <<>>
       THEN pc' = "raised" /\ error' = "ValueError"
       ELSE pc' = "detect" /\ error' = error
    /\ UNCHANGED <<retrieval, env, wiki, nli_model, nlp, raw, lang, claims,
                   ci, remaining, person, supporting, contradicting, label,
                   confidence, response, invoked, reached, order>>

\* try: lang = detect(text) except Exception: lang = "desconocido"
DetectLanguageWith(ok) ==
    /\ pc = "detect"
    /\ lang' = IF ok THEN "es" ELSE "desconocido"
    /\ invoked' = invoked \cup {"detect"}
    /\ pc' = "sentiment"
    /\ UNCHANGED <<retrieval, env, wiki, nli_model, nlp, raw, text, claims,
                   ci, remaining, person, supporting, contradicting, label,
                   confidence, error, response, reached, order>>

DetectLanguage == \E ok \in BOOLEAN : DetectLanguageWith(ok)

\* polarity = round(TextBlob(text).sentiment.polarity, 3), outside any try
SentimentWith(ok) ==
    /\ pc = "sentiment"
    /\ invoked' = invoked \cup {"sentiment"}
    /\ IF ok THEN pc' = "extract" /\ error' = error
       ELSE pc' = "raised" /\ error' = "SentimentError"
    /\ UNCHANGED <<retrieval, env, wiki, nli_model, nlp, raw, text, lang,
                   claims, ci, remaining, person, supporting, contradicting,
                   label, confidence, response, reached, order>>

Sentiment == \E ok \in BOOLEAN : SentimentWith(ok)

\* a mutant of Extract: the counters go on from where they are
ExtractKeepingCounts ==
    /\ pc = "extract"
    /\ claims' = ExtractClaims(text)
    /\ ci' = 1
    /\ pc' = "claim"
    /\ UNCHANGED <<retrieval, env, wiki, nli_model, nlp, raw, text, lang,
                   remaining, person, supporting, contradicting, label,
                   confidence, error, response, invoked, reached, order>>

\* claims = self.extract_claims(text) and the counters set to zero
Extract ==
    /\ pc = "extract"
    /\ claims' = ExtractClaims(text)
    /\ ci' = 1
    /\ supporting' = 0
    /\ contradicting' = 0
    /\ pc' = "claim"
    /\ UNCHANGED <<retrieval, env, wiki, nli_model, nlp, raw, text, lang,
                   remaining, person, label, confidence, error, response,
                   invoked, reached, order>>

\* for claim in claims: articles = self.search_newsapi(claim) if
\* self.newsapi_key else []; search_newsapi returns [] when the request fails
SearchClaimWith(ok, n) ==
    /\ pc = "claim"
    /\ ci <= Len(claims)
    /\ IF newsapi_key
       THEN /\ invoked' = invoked \cup {"search"}
            /\ remaining' = IF ok THEN n ELSE 0
            /\ reached' = (reached \/ ok)
            /\ retrieval' = [claim |-> ci, searches |-> 1, docs |-> remaining',
                             lookups |-> 0]
       ELSE /\ invoked' = invoked
            /\ remaining' = 0
            /\ reached' = reached
            /\ retrieval' = [claim |-> ci, searches |-> 0, docs |-> 0,
                             lookups |-> 0]
    /\ pc' = IF remaining' > 0 THEN "article" ELSE "person"
    /\ UNCHANGED <<env, wiki, nli_model, nlp, raw, text, lang, claims, ci, person,
                   supporting, contradicting, label, confidence, error, response,
                   order>>

SearchClaim ==
    \E ok \in BOOLEAN, n \in 0..MaxArticles : SearchClaimWith(ok, n)

\* one pass of "for a in articles"
ProcessArticleWith(a, loadOk, infer) ==
    /\ pc = "article"
    /\ remaining > 0
    /\ LET n == NliCheck(a.evidence, claims[ci] # <<>>, nli_model,
                         transformers_ok, loadOk, infer)
           used == IF a.evidence THEN n.used ELSE {}
           cnt == ArticleCount([s |-> supporting, c |-> contradicting], a, n.r)
       IN  /\ supporting' = cnt.s
           /\ contradicting' = cnt.c
           /\ nli_model' = IF a.evidence THEN n.model ELSE nli_model
           /\ invoked' = invoked \cup used
    /\ remaining' = remaining - 1
    /\ IF remaining' = 0
       THEN ci' = ci + 1 /\ pc' = "claim"
       ELSE ci' = ci /\ pc' = "article"
    /\ UNCHANGED <<retrieval, env, wiki, nlp, raw, text, lang, claims, person,
                   label, confidence, error, response, reached, order>>

ProcessArticle ==
    \E a \in Articles, loadOk \in BOOLEAN, infer \in NliInferences :
        ProcessArticleWith(a, loadOk, infer)

\* if not articles: person = self._extract_person_from_claim(claim).  Without
\* a spaCy pipeline the fallback runs re.search on a pattern with an
\* unbalanced parenthesis, which raises re.error.
ExtractPersonWith(loaded, found) ==
    /\ pc = "person"
    /\ nlp' = IF nlp # "None" THEN nlp
              ELSE IF ~spacy_ok THEN "None"
              ELSE loaded
    /\ invoked' = invoked
            \cup (IF nlp = "None" /\ spacy_ok THEN {"spacy_load"} ELSE {})
            \cup (IF nlp' # "None" THEN {"spacy"} ELSE {"re"})
    /\ IF nlp' = "None"
       THEN pc' = "raised" /\ error' = "re.error" /\ person' = person
       ELSE /\ pc' = "wiki"
            /\ error' = error
            /\ person' = (found /\ nlp' = "Loaded")
    /\ UNCHANGED <<retrieval, env, wiki, nli_model, raw, text, lang, claims,
                   ci, remaining, supporting, contradicting, label,
                   confidence, response, reached, order>>

SpacyLoads == {"Loaded", "Blank", "None"}

ExtractPerson ==
    \E loaded \in SpacyLoads, found \in BOOLEAN : ExtractPersonWith(loaded, found)

\* wiki_summary, wiki_label, wiki_source = self._wiki_check_person(person,
\* claim) if person else self._wiki_check(claim)
WikiLookupWith(outcome, asserts_current, f) ==
    /\ pc = "wiki"
    /\ LET w == IF person THEN WikiCheckPerson(outcome, asserts_current, f)
                ELSE WikiCheck(outcome, asserts_current, f)
       IN  /\ wiki_summary' = w.given
           /\ wiki_label' = w.label
           /\ reached' = (reached \/ outcome # "raise")
    /\ invoked' = invoked \cup {"wikipedia"}
    /\ retrieval' = [retrieval EXCEPT !.lookups = @ + 1]
    /\ pc' = "wiki_nli"
    /\ UNCHANGED <<env, nli_model, nlp, raw, text, lang, claims, ci, remaining,
                   person, supporting, contradicting, label, confidence, error,
                   response, order>>

WikiLookup ==
    \E outcome \in WikiOutcomes, asserts_current \in BOOLEAN, f \in Summaries :
        WikiLookupWith(outcome, asserts_current, f)

\* nli_label, nli_score = self._nli_check(wiki_summary, claim) and the
\* counting that follows
WikiScoreWith(loadOk, infer) ==
    /\ pc = "wiki_nli"
    /\ LET n == NliCheck(wiki_summary, claims[ci] # <<>>, nli_model,
                         transformers_ok, loadOk, infer)
           cnt == WikiCount([s |-> supporting, c |-> contradicting],
                            wiki_label, n.r)
       IN  /\ supporting' = cnt.s
           /\ contradicting' = cnt.c
           /\ nli_model' = n.model
           /\ invoked' = invoked \cup n.used
    /\ ci' = ci + 1
    /\ pc' = "claim"
    /\ wiki_summary' = FALSE
    /\ wiki_label' = "none"
    /\ UNCHANGED <<retrieval, env, nlp, raw, text, lang, claims, remaining,
                   person, label, confidence, error, response, reached,
                   order>>

WikiScore ==
    \E loadOk \in BOOLEAN, infer \in NliInferences : WikiScoreWith(loadOk, infer)

\* "Decidir etiqueta" and the return
DecideLabel ==
    /\ pc = "claim"
    /\ ci > Len(claims)
    /\ label' = Decide(supporting, contradicting).label
    /\ confidence' = Decide(supporting, contradicting).confidence
    /\ pc' = "returned"
    /\ UNCHANGED <<retrieval, env, wiki, nli_model, nlp, raw, text, lang,
                   claims, ci, remaining, person, supporting, contradicting,
                   error, response, invoked, reached, order>>

\* the caller gets the result; the endpoint turns an exception into HTTP 500,
\* the page shows it
Respond ==
    /\ pc \in {"returned", "raised"}
    /\ response' = IF pc = "returned" THEN "result"
                   ELSE IF process = "api" THEN "HTTP500" ELSE "exception"
    /\ pc' = "responded"
    /\ UNCHANGED <<retrieval, env, wiki, nli_model, nlp, raw, text, lang,
                   claims, ci, remaining, person, supporting, contradicting,
                   label, confidence, error, invoked, reached, order>>

Next ==
    \/ AnalyzeTextEndpoint
    \/ AppAnalyze
    \/ AnalyzeNewsEnter
    \/ DetectLanguage
    \/ Sentiment
    \/ Extract
    \/ SearchClaim
    \/ ProcessArticle
    \/ ExtractPerson
    \/ WikiLookup
    \/ WikiScore
    \/ DecideLabel
    \/ Respond

Spec == Init /\ [][Next]_vars

\* ------------------------------------------------------- order independence
\* The relation scores of one request are fixed first and then counted in any
\* order, as parallel per-claim and per-evidence branches joined before the
\* decision would count them.
OrderNli ==
    { Unknown,
      [label |-> "entailment", score |-> NliThreshold],
      [label |-> "contradiction", score |-> NliThreshold],
      [label |-> "entailment", score |-> NliThreshold - 1] }

NoArticle ==
    [trusted |-> FALSE, mentioned |-> FALSE, contra |-> FALSE, evidence |-> FALSE]

\* what one evidence document brings: an article of a trusted domain with its
\* two heuristic checks and the model's answer, or an encyclopedia summary
\* with its heuristic label and the model's answer
OrderItems ==
    { [origin |-> "SEARCH_API", a |-> a, wiki_label |-> "none", r |-> r] :
        a \in {x \in Articles : x.trusted /\ x.evidence}, r \in OrderNli }
    \cup
    { [origin |-> "ENCYCLOPEDIA", a |-> NoArticle, wiki_label |-> l, r |-> r] :
        l \in {"REAL", "FALSO", "DESCONOCIDO"}, r \in OrderNli }

CountItem(cnt, item) ==
    IF item.origin = "SEARCH_API" THEN ArticleCount(cnt, item.a, item.r)
    ELSE WikiCount(cnt, item.wiki_label, item.r)

\* the counts the for loops reach, taking the scores first to last
RECURSIVE InOrder(_, _)
InOrder(seq, cnt) ==
    IF seq = <<>> THEN cnt ELSE InOrder(Tail(seq), CountItem(cnt, Head(seq)))

InitOrder ==
    /\ process = "api"
    /\ newsapi_key = TRUE
    /\ transformers_ok = TRUE
    /\ spacy_ok = TRUE
    /\ nli_model = "Loaded"
    /\ nlp = "Loaded"
    /\ raw = <<>>
    /\ response = "none"
    /\ Fresh
    /\ \E n \in 0..MaxScores : scores \in [1..n -> OrderItems]
    /\ pending = DOMAIN scores
    /\ arg = "none"
    /\ out = "none"
    /\ world = "none"
    /\ first = "none"
    /\ pc = IF scores = <<>> THEN "claim" ELSE "branches"

\* one branch delivers its score
CountScore(i) ==
    /\ pc = "branches"
    /\ i \in pending
    /\ LET cnt == CountItem([s |-> supporting, c |-> contradicting], scores[i])
       IN  supporting' = cnt.s /\ contradicting' = cnt.c
    /\ pending' = pending \ {i}
    /\ pc' = IF pending' = {} THEN "claim" ELSE "branches"
    /\ UNCHANGED <<env, wiki, nli_model, nlp, raw, text, lang, claims, ci,
                   remaining, person, label, confidence, error, response,
                   invoked, reached, retrieval, scores, side>>

NextOrder ==
    \/ \E i \in DOMAIN scores : CountScore(i)
    \/ DecideLabel

SpecOrder == InitOrder /\ [][NextOrder]_vars

\* ------------------------------------------------- text of claim and summary
\* (upper-case, lower-case) of the letters str.lower() changes in these texts
CasePairs ==
    {
      <<"A","a">>, <<"B","b">>, <<"C","c">>, <<"D","d">>, <<"E","e">>,
      <<"F","f">>, <<"G","g">>, <<"H","h">>, <<"I","i">>, <<"J","j">>,
      <<"K","k">>, <<"L","l">>, <<"M","m">>, <<"N","n">>, <<"O","o">>,
      <<"P","p">>, <<"Q","q">>, <<"R","r">>, <<"S","s">>, <<"T","t">>,
      <<"U","u">>, <<"V","v">>, <<"W","w">>, <<"X","x">>, <<"Y","y">>,
      <<"Z","z">>, <<"Á","á">>, <<"É","é">>, <<"Í","í">>, <<"Ó","ó">>,
      <<"Ú","ú">>, <<"Ñ","ñ">> }

LowerChar(c) ==
    IF \E p \in CasePairs : p[1] = c
    THEN (CHOOSE p \in CasePairs : p[1] = c)[2]
    ELSE c

\* str.lower()
Lower(s) == [i \in 1..Len(s) |-> LowerChar(s[i])]

\* sub in s
Contains(s, sub) ==
    \E i \in 1..(Len(s) - Len(sub) + 1) : SubSeq(s, i, i + Len(sub) - 1) = sub

Digits == {"0", "1", "2", "3", "4", "5", "6", "7", "8", "9"}
NonWord == {" ", ".", ",", "!", "?", ";", ":", "-"}

\* \w of the regular expressions, on the characters of these texts
IsWord(c) == c \notin NonWord

\* \b before position i and after position j of s
BoundaryBefore(s, i) == i = 1 \/ ~IsWord(s[i - 1])
BoundaryAfter(s, j) == j = Len(s) \/ ~IsWord(s[j + 1])

\* re.search(r"\b(19|20)\d{2}\b", lower)
YearsInSummary(lower) ==
    \E i \in 1..(Len(lower) - 3) :
        /\ SubSeq(lower, i, i + 1) \in {<<"1", "9">>, <<"2", "0">>}
        /\ lower[i + 2] \in Digits
        /\ lower[i + 3] \in Digits
        /\ BoundaryBefore(lower, i)
        /\ BoundaryAfter(lower, i + 3)

\* "presidente desde "
PresidenteDesde ==
    <<"p","r","e","s","i","d","e","n","t","e"," ","d","e","s","d","e"," ">>

\* re.search(r"presidente desde (\d{4})", lower)
DesdeMatch(lower) ==
    LET n == Len(PresidenteDesde)
    IN  \E i \in 1..(Len(lower) - n - 3) :
            /\ SubSeq(lower, i, i + n - 1) = PresidenteDesde
            /\ \A k \in 0..3 : lower[i + n + k] \in Digits

\* NewsAnalyzer.CONTRADICTION_TERMS
CONTRADICTION_TERMS ==
    { <<"f","a","l","s","o">>,
      <<"d","e","s","m","i","e","n","t","e">>,
      <<"n","o"," ","e","s"," ","c","i","e","r","t","o">>,
      <<"d","e","s","m","e","n","t","i","d","o">>,
      <<"i","n","c","o","r","r","e","c","t","o">>,
      <<"e","r","r","ó","n","e","o">>,
      <<"n","e","g","a","d","o">> }

\* ["fue presidente", "fue el presidente"]
PastPhrases ==
    { <<"f","u","e"," ","p","r","e","s","i","d","e","n","t","e">>,
      <<"f","u","e"," ","e","l"," ","p","r","e","s","i","d","e","n","t","e">> }

\* what the label computation reads in the lower-cased summary
SummaryFeatures(lower) ==
    [fuePresidente |-> \E p \in PastPhrases : Contains(lower, p),
     years |-> YearsInSummary(lower),
     desde |-> DesdeMatch(lower),
     fue |-> Contains(lower, <<"f","u","e">>),
     contra |-> \E term \in CONTRADICTION_TERMS : Contains(lower, term),
     given |-> lower # <<>>]

\* asserts_current of _wiki_check_person (and binds tighter than or)
AssertsCurrentPerson(claim_low) ==
    \/ /\ Contains(claim_low, <<"p","r","e","s","i","d","e","n","t","e">>)
       /\ Contains(claim_low, <<"a","c","t","u","a","l">>)
    \/ Contains(claim_low, <<"a","c","t","u","a","l","m","e","n","t","e"," ","e","s">>)

\* the phrases _wiki_check looks for in the claim
CurrentPhrases ==
    { <<"p","r","e","s","i","d","e","n","t","e"," ","a","c","t","u","a","l">>,
      <<"a","c","t","u","a","l","m","e","n","t","e"," ","e","s"," ","p","r","e","s","i","d","e","n","t","e">>,
      <<"e","s"," ","p","r","e","s","i","d","e","n","t","e"," ","a","c","t","u","a","l">>,
      <<"e","s"," ","e","l"," ","p","r","e","s","i","d","e","n","t","e">>,
      <<"p","r","e","s","i","d","e","n","t","e"," ","d","e"," ","c","o","l","o","m","b","i","a"," ","a","c","t","u","a","l">>,
      <<"p","r","e","s","i","d","e","n","t","e"," ","a","c","t","u","a","l"," ","d","e">> }

\* asserts_current of _wiki_check
AssertsCurrentGeneral(claim_low) ==
    \E k \in CurrentPhrases : Contains(claim_low, k)

\* the label _wiki_check_person gives a claim against a retrieved summary
WikiCheckPersonText(claim, summary) ==
    WikiCheckPerson("summary", AssertsCurrentPerson(Lower(claim)),
                    SummaryFeatures(Lower(summary))).label

\* the label _wiki_check gives a claim against a retrieved summary
WikiCheckText(claim, summary) ==
    WikiCheck("summary", AssertsCurrentGeneral(Lower(claim)),
              SummaryFeatures(Lower(summary))).label

\* "Juan Pérez es el actual presidente"
ClaimActualPresidente ==
    <<"J","u","a","n"," ","P","é","r","e","z"," ","e","s"," ","e","l"," ",
      "a","c","t","u","a","l"," ","p","r","e","s","i","d","e","n","t","e">>

\* "Juan Pérez fue presidente entre 2010 y 2014"
SummaryFuePresidente ==
    <<"J","u","a","n"," ","P","é","r","e","z"," ","f","u","e"," ","p","r",
      "e","s","i","d","e","n","t","e"," ","e","n","t","r","e"," ","2","0",
      "1","0"," ","y"," ","2","0","1","4">>

\* claims the lookups are asked about
WikiClaims ==
    { ClaimActualPresidente,
      <<"J","u","a","n"," ","P","é","r","e","z"," ","e","s"," ","e","l"," ","p","r","e","s","i","d","e","n","t","e"," ","a","c","t","u","a","l">>,
      <<"J","u","a","n"," ","P","é","r","e","z"," ","a","c","t","u","a","l","m","e","n","t","e"," ","e","s"," ","m","i","n","i","s","t","r","o">>,
      <<"J","u","a","n"," ","P","é","r","e","z"," ","e","s"," ","e","l"," ","p","r","e","s","i","d","e","n","t","e">>,
      <<"J","u","a","n"," ","P","é","r","e","z"," ","v","i","v","e"," ","e","n"," ","C","a","l","i">> }

\* summaries the encyclopedia returns
WikiSummaries ==
    { SummaryFuePresidente,
      <<"E","s"," ","p","r","e","s","i","d","e","n","t","e"," ","d","e","s","d","e"," ","2","0","2","2">>,
      <<"J","u","a","n"," ","P","é","r","e","z"," ","e","s"," ","a","b","o","g","a","d","o">>,
      <<"E","s"," ","f","a","l","s","o"," ","q","u","e"," ","s","e","a"," ","p","r","e","s","i","d","e","n","t","e">>,
      <<"P","r","e","s","i","d","e","n","t","e"," ","d","e","s","d","e"," ","2","0","1","8",","," ","f","u","e"," ","a","l","c","a","l","d","e">>,
      <<"J","u","a","n"," ","P","é","r","e","z"," ","g","o","b","e","r","n","ó"," ","h","a","s","t","a"," ","2","0","1","4">> }

\* ------------------------------------------------- runs of a single function
\* an analyzer at rest, for the runs that exercise one function of it
Parked ==
    /\ process = "api"
    /\ newsapi_key = FALSE
    /\ transformers_ok = FALSE
    /\ spacy_ok = FALSE
    /\ nli_model = "None"
    /\ nlp = "None"
    /\ raw = <<>>
    /\ response = "none"
    /\ Fresh
    /\ scores = <<>>
    /\ pending = {}
    /\ world = "none"
    /\ first = "none"

parked == <<env, wiki, nli_model, nlp, raw, text, lang, claims, ci, remaining,
            person, supporting, contradicting, label, confidence, error,
            response, invoked, reached, retrieval, scores, pending, world,
            first>>

\* ------------------------------------------------ encyclopedia label on text
\* a claim, a retrieved summary, and whether a person was extracted from the
\* claim (analyze_news then asks _wiki_check_person, else _wiki_check)
InitWiki ==
    /\ Parked
    /\ pc = "wiki_call"
    /\ arg \in [claim : WikiClaims, summary : WikiSummaries, person : BOOLEAN]
    /\ out = "none"

WikiHeuristic ==
    /\ pc = "wiki_call"
    /\ out' = IF arg.person
              THEN WikiCheckPersonText(arg.claim, arg.summary)
              ELSE WikiCheckText(arg.claim, arg.summary)
    /\ pc' = "wiki_done"
    /\ UNCHANGED <<arg, parked>>

NextWiki == WikiHeuristic

SpecWiki == InitWiki /\ [][NextWiki]_vars

\* ---------------------------------------------------- extract_claims on text
\* sentences of 21, 20 and 3 letters
ClaimUnits == {Rep("a", MinClaimLen + 1), Rep("b", MinClaimLen), Rep("c", 3)}

\* what stands between two sentences
ClaimSeparators == {<<".", " ">>, <<"!", " ", " ">>, <<"?">>, <<" ">>}

\* n sentences, a separator after each but the last
RECURSIVE Sentences(_)
Sentences(n) ==
    IF n = 1 THEN ClaimUnits
    ELSE { u \o p \o rest : u \in ClaimUnits, p \in ClaimSeparators,
                            rest \in Sentences(n - 1) }

RECURSIVE Repeat(_, _)
Repeat(s, n) == IF n = 0 THEN <<>> ELSE s \o Repeat(s, n - 1)

\* more than 200 characters in sentences of 20 letters
LongText ==
    Repeat(Rep("b", MinClaimLen) \o <<".", " ">>,
           ClaimFallbackLen \div MinClaimLen)

ClaimTexts ==
    {LongText, Pad(MaxPad) \o <<".">>}
        \cup UNION { Sentences(n) : n \in 1..MaxUnits }
        \cup { Pad(l) \o s \o <<".">> \o Pad(l) :
                 l \in 0..MaxPad, s \in Sentences(2) }

InitClaims ==
    /\ Parked
    /\ pc = "claims_call"
    /\ arg \in ClaimTexts
    /\ out = <<>>

ExtractClaimsCall ==
    /\ pc = "claims_call"
    /\ out' = ExtractClaims(arg)
    /\ pc' = "claims_done"
    /\ UNCHANGED <<arg, parked>>

NextClaims == ExtractClaimsCall

SpecClaims == InitClaims /\ [][NextClaims]_vars

\* -------------------------------------------------- extract_keywords on text
\* the maximal runs of characters outside seps, from position i of s on
RECURSIVE Fields(_, _, _)
Fields(s, seps, i) ==
    LET starts == { k \in i..Len(s) : s[k] \notin seps }
    IN  IF starts = {} THEN <<>>
        ELSE LET a == SetMin(starts)
                 ends == { k \in a..Len(s) : s[k] \in seps }
                 b == IF ends = {} THEN Len(s) + 1 ELSE SetMin(ends)
             IN  <<SubSeq(s, a, b - 1)>> \o Fields(s, seps, b)

\* text.split(): the pieces of s between runs of whitespace
SplitWords(s) == Fields(s, Whitespace, 1)

\* re.sub(r'\W+', '', w).lower()
CleanWord(w) == Lower(SelectSeq(w, IsWord))

LongWord(w) == Len(w) > MinKeywordLen

InSeq(x, seq) == \E k \in 1..Len(seq) : seq[k] = x

\* a mutant of CollectKeywords: the loop never breaks
RECURSIVE CollectAllKeywords(_, _, _)
CollectAllKeywords(words, i, seen) ==
    IF i > Len(words) THEN seen
    ELSE LET next == IF words[i] # <<>> /\ ~InSeq(words[i], seen)
                     THEN Append(seen, words[i]) ELSE seen
         IN  CollectAllKeywords(words, i + 1, next)

\* the loop over words from position i on, seen is the list so far
RECURSIVE CollectKeywords(_, _, _)
CollectKeywords(words, i, seen) ==
    IF i > Len(words) THEN seen
    ELSE LET next == IF words[i] # <<>> /\ ~InSeq(words[i], seen)
                     THEN Append(seen, words[i]) ELSE seen
         IN  IF Len(next) >= MaxKeywords THEN next
             ELSE CollectKeywords(words, i + 1, next)

ExtractKeywords(t) ==
    LET split == SplitWords(t)
        words == [i \in 1..Len(split) |-> CleanWord(split[i])]
    IN  CollectKeywords(SelectSeq(words, LongWord), 1, <<>>)

\* the words texts are made of: long and short ones, a repeated one, one in
\* capitals, one with punctuation inside
KeywordWords ==
    << <<"a","a","a","a","a">>,
       <<"c","a","s","a">>,
       <<"A","A","A","A","A">>,
       <<"b","b","b","b","b">>,
       <<"c","c","-","c","c","c",",">>,
       <<"d","d","d","d","d">>,
       <<"e","e","e","e","e">>,
       <<"f","f","f","f","f">>,
       <<"g","g","g","g","g">>,
       <<"h","h","h","h","h">>,
       <<"i","i","i","i","i">>,
       <<"b","b","b","b","b">> >>

RECURSIVE JoinWords(_, _)
JoinWords(chosen, i) ==
    IF i > Len(KeywordWords) THEN <<>>
    ELSE IF i \in chosen
         THEN KeywordWords[i] \o <<" ">> \o JoinWords(chosen, i + 1)
         ELSE JoinWords(chosen, i + 1)

\* the words at a set of positions of KeywordWords, a blank after each, and a
\* blank before the first
KeywordTexts ==
    { <<" ">> \o JoinWords(chosen, 1) :
        chosen \in SUBSET (1..Min(MaxWords, Len(KeywordWords))) }

InitKeywords ==
    /\ Parked
    /\ pc = "keywords_call"
    /\ arg \in KeywordTexts
    /\ out = <<>>

ExtractKeywordsCall ==
    /\ pc = "keywords_call"
    /\ out' = ExtractKeywords(arg)
    /\ pc' = "keywords_done"
    /\ UNCHANGED <<arg, parked>>

NextKeywords == ExtractKeywordsCall

SpecKeywords == InitKeywords /\ [][NextKeywords]_vars

\* --------------------------------------------------- the same call twice
\* what the collaborators answer about one claim: the search (ok, n articles,
\* each like a), the NER (found), the encyclopedia (outcome, f), the
\* inference (infer); asserts_current is read off the claim
PastSummary == SummaryFeatures(Lower(SummaryFuePresidente))

ArticleAnswers ==
    { [ok |-> TRUE, n |-> 1, a |-> a, found |-> FALSE, outcome |-> "raise",
       asserts_current |-> FALSE, f |-> PastSummary, infer |-> i] :
        a \in { [trusted |-> TRUE, mentioned |-> TRUE, contra |-> FALSE,
                 evidence |-> TRUE],
                [trusted |-> FALSE, mentioned |-> FALSE, contra |-> TRUE,
                 evidence |-> TRUE] },
        i \in { [label |-> "entailment", score |-> 100],
                [label |-> "raise", score |-> 0] } }

WikiAnswers ==
    { [ok |-> FALSE, n |-> 0, a |-> NoArticle, found |-> fd, outcome |-> o,
       asserts_current |-> TRUE, f |-> PastSummary, infer |-> i] :
        fd \in BOOLEAN, o \in {"raise", "summary"},
        i \in { [label |-> "entailment", score |-> 100],
                [label |-> "contradiction", score |-> NliThreshold - 1] } }

\* the answers to each claim of the text, whether from_pretrained works, what
\* loading spaCy gives, whether detect and TextBlob work
Worlds ==
    [answers : [1..MaxClaims -> ArticleAnswers \cup WikiAnswers],
     loadOk : BOOLEAN, spacy : {"Loaded", "None"}, detect : {TRUE},
     sentiment : {TRUE}]

\* how a call ended: the verdict returned or the exception raised
Outcome ==
    IF pc = "returned"
    THEN [label |-> label, confidence |-> confidence, error |-> "none"]
    ELSE [label |-> "none", confidence |-> 0, error |-> error]

NoOutcome == [label |-> "pending", confidence |-> 0, error |-> "none"]

\* two sentences of 21 letters: two claims
TwoClaims == Rep("a", MinClaimLen + 1) \o <<".", " ">> \o Rep("b", MinClaimLen + 1)

\* an analyzer after any history of calls: the handles loaded or not, and in
\* the variables that stand for locals of analyze_news whatever the call
\* before left there
InitTwice ==
    /\ process = "api"
    /\ newsapi_key \in BOOLEAN
    /\ transformers_ok = TRUE
    /\ spacy_ok = TRUE
    /\ nli_model \in {"None", "Loaded"}
    /\ nlp \in {"None", "Loaded"}
    /\ pc = "idle"
    /\ raw = <<>>
    /\ response = "none"
    /\ text = <<>>
    /\ lang = "none"
    /\ claims = <<>>
    /\ ci = 1
    /\ remaining = 0
    /\ person = FALSE
    /\ wiki_summary = FALSE
    /\ wiki_label = "none"
    /\ \E stale \in {<<0, 0>>, <<1, 2>>} :
        supporting = stale[1] /\ contradicting = stale[2]
    /\ label = "none"
    /\ confidence = 0
    /\ error = "none"
    /\ invoked = {}
    /\ reached = FALSE
    /\ retrieval = NoRetrieval
    /\ scores = <<>>
    /\ pending = {}
    /\ arg = TwoClaims
    /\ out = NoOutcome
    /\ world \in Worlds
    /\ first = NoOutcome

\* analyzer.analyze_news(text): nothing of the call before is handed over
CallAnalyze ==
    /\ raw' = arg
    /\ pc' = "enter"
    /\ error' = "none"
    /\ invoked' = {}
    /\ reached' = FALSE
    /\ retrieval' = NoRetrieval
    /\ UNCHANGED <<env, wiki, nli_model, nlp, text, lang, claims, ci,
                   remaining, person, supporting, contradicting, label,
                   confidence, response, scores, pending, arg, world>>

FirstCall ==
    /\ pc = "idle"
    /\ CallAnalyze
    /\ UNCHANGED <<first, out>>

SecondCall ==
    /\ pc \in {"returned", "raised"}
    /\ first = NoOutcome
    /\ first' = Outcome
    /\ CallAnalyze
    /\ UNCHANGED out

SecondDone ==
    /\ pc \in {"returned", "raised"}
    /\ first # NoOutcome
    /\ out' = Outcome
    /\ pc' = "twice_done"
    /\ UNCHANGED <<parked, first, arg>>

Answer == world.answers[IF ci \in DOMAIN world.answers THEN ci ELSE 1]

ReplayDetect == DetectLanguageWith(world.detect)
ReplaySentiment == SentimentWith(world.sentiment)
ReplaySearch == SearchClaimWith(Answer.ok, Answer.n)
ReplayArticle == ProcessArticleWith(Answer.a, world.loadOk, Answer.infer)
ReplayPerson == ExtractPersonWith(world.spacy, Answer.found)
ReplayWiki == WikiLookupWith(Answer.outcome, Answer.asserts_current, Answer.f)
ReplayWikiScore == WikiScoreWith(world.loadOk, Answer.infer)

NextTwice ==
    \/ FirstCall
    \/ SecondCall
    \/ SecondDone
    \/ AnalyzeNewsEnter
    \/ ReplayDetect
    \/ ReplaySentiment
    \/ Extract
    \/ ReplaySearch
    \/ ReplayArticle
    \/ ReplayPerson
    \/ ReplayWiki
    \/ ReplayWikiScore
    \/ DecideLabel

SpecTwice == InitTwice /\ [][NextTwice]_vars

\* ------------------------------------------------------- analysis of a URL
\* "Error"
ErrorPrefix == <<"E","r","r","o","r">>

\* "Error al extraer texto: ", what extract_article_text puts before the
\* exception's message
ErrorSentinel ==
    <<"E","r","r","o","r"," ","a","l"," ","e","x","t","r","a","e","r"," ",
      "t","e","x","t","o",":"," ">>

\* s.startswith(prefix)
StartsWith(s, prefix) ==
    Len(s) >= Len(prefix) /\ SubSeq(s, 1, Len(prefix)) = prefix

\* what extract_article_text returns: nothing, the sentinel with a short and
\* with a long message, 49 and 50 letters, two sentences
ScrapedTexts ==
    { <<>>,
      ErrorSentinel \o Rep("x", 1),
      ErrorSentinel \o Rep("x", MinScrapedLen),
      Rep("a", MinScrapedLen - 1),
      Rep("a", MinScrapedLen),
      TwoClaims \o <<".", " ">> \o TwoClaims }

\* api.py: scraped_text = extract_article_text(request.url), the two checks,
\* then analyzer.analyze_news(scraped_text)
AnalyzeUrlEndpoint ==
    /\ process = "api"
    /\ Idle
    /\ \E t \in ScrapedTexts :
        /\ raw' = t
        /\ IF StartsWith(t, ErrorPrefix) \/ Len(t) < MinScrapedLen
           THEN pc' = "responded" /\ response' = "HTTP400"
           ELSE pc' = "enter" /\ response' = "none"
    /\ Call
    /\ UNCHANGED <<env, nli_model, nlp, order>>

\* app.py: texto = extract_article_text(url); "if texto:" and the button, else
\* the warning; a NewsAnalyzer is built for the click
AppAnalyzeUrl ==
    /\ process = "app"
    /\ Idle
    /\ \E t \in ScrapedTexts :
        /\ raw' = t
        /\ IF t = <<>>
           THEN pc' = "responded" /\ response' = "warning"
           ELSE pc' = "enter" /\ response' = "none"
    /\ nli_model' = "None"
    /\ nlp' = "None"
    /\ Call
    /\ UNCHANGED <<env, order>>

NextUrl ==
    \/ AnalyzeUrlEndpoint
    \/ AppAnalyzeUrl
    \/ AnalyzeNewsEnter
    \/ DetectLanguage
    \/ Sentiment
    \/ Extract
    \/ SearchClaim
    \/ ProcessArticle
    \/ ExtractPerson
    \/ WikiLookup
    \/ WikiScore
    \/ DecideLabel
    \/ Respond

SpecUrl == Init /\ [][NextUrl]_vars

\* ------------------------------------------------ one evidence document scored
\* one (claim, evidence) pair: an article of a search result or the summary of
\* the encyclopedia with its heuristic label; whether evidence and claim are
\* non-empty; the model handle, whether transformers can be imported, whether
\* from_pretrained works, what the inference does; the counts so far
ScoreInputs ==
    { x \in [origin : {"SEARCH_API", "ENCYCLOPEDIA"}, a : Articles,
             wiki_label : {"none", "REAL", "FALSO", "DESCONOCIDO"},
             premise : BOOLEAN, hypothesis : BOOLEAN,
             model : {"None", "Loaded"}, canImport : BOOLEAN,
             loadOk : BOOLEAN, infer : NliInferences,
             before : {[s |-> 0, c |-> 0], [s |-> 1, c |-> 2]}] :
        IF x.origin = "SEARCH_API"
        THEN x.wiki_label = "none" /\ x.premise = x.a.evidence
        ELSE x.wiki_label # "none" /\ x.a = NoArticle }

InitScore ==
    /\ Parked
    /\ pc = "score_call"
    /\ arg \in ScoreInputs
    /\ out = [r |-> Unknown, model |-> arg.model, cnt |-> arg.before]

\* the body of "for a in articles" (analyzer.py:97-121), or lines 134-149
\* after the encyclopedia lookup
ScorePair ==
    /\ pc = "score_call"
    /\ LET n == NliCheck(arg.premise, arg.hypothesis, arg.model, arg.canImport,
                         arg.loadOk, arg.infer)
           item == [origin |-> arg.origin, a |-> arg.a,
                    wiki_label |-> arg.wiki_label, r |-> n.r]
       IN  out' = [r |-> n.r, model |-> n.model,
                   cnt |-> CountItem(arg.before, item)]
    /\ pc' = "score_done"
    /\ UNCHANGED <<arg, parked>>

NextScore == ScorePair

SpecScore == InitScore /\ [][NextScore]_vars

\* --------------------------------------------------- _claim_mentioned on text
\* re.findall(r"\w+", s): the maximal runs of word characters of s
FindWords(s) == Fields(s, NonWord, 1)

LongToken(w) == Len(w) > MinTokenLen

\* sum(1 for t in tokens if t in text), tokens from position i on
RECURSIVE Present(_, _, _)
Present(tokens, evidence, i) ==
    IF i > Len(tokens) THEN 0
    ELSE (IF Contains(evidence, tokens[i]) THEN 1 ELSE 0)
             + Present(tokens, evidence, i + 1)

\* int(len(tokens) * 0.4): the product is cut to an integer
FortyPercent(n) == (n * 4) \div 10

ClaimMentioned(claim, evidence) ==
    LET tokens == SelectSeq(FindWords(claim), LongToken)
        threshold == IF FortyPercent(Len(tokens)) > 1
                     THEN FortyPercent(Len(tokens)) ELSE 1
    IN  IF tokens = <<>> THEN FALSE
        ELSE Present(tokens, evidence, 1) >= threshold

\* the words claims and evidence are made of: four letters, two letters, and
\* one that comes twice
MentionWords ==
    << <<"a","a","a","a">>,
       <<"d","e">>,
       <<"b","b","b","b">>,
       <<"c","c","c","c">>,
       <<"e","l">>,
       <<"a","a","a","a">>,
       <<"d","d","d","d">>,
       <<"e","e","e","e">>,
       <<"f","f","f","f">>,
       <<"g","g","g","g">> >>

\* the words of MentionWords at the chosen positions, sep after each
RECURSIVE JoinMention(_, _, _)
JoinMention(chosen, sep, i) ==
    IF i > Len(MentionWords) THEN <<>>
    ELSE IF i \in chosen
         THEN MentionWords[i] \o sep \o JoinMention(chosen, sep, i + 1)
         ELSE JoinMention(chosen, sep, i + 1)

\* a claim of the first k words, and an evidence text holding some of them
MentionInputs ==
    { [claim |-> JoinMention(1..k, <<",", " ">>, 1),
       evidence |-> JoinMention(chosen, <<"x">>, 1)] :
        k \in 0..Min(MaxMentionWords, Len(MentionWords)),
        chosen \in SUBSET (1..Min(MaxMentionWords, Len(MentionWords))) }

InitMentioned ==
    /\ Parked
    /\ pc = "mentioned_call"
    /\ arg \in MentionInputs
    /\ out = FALSE

ClaimMentionedCall ==
    /\ pc = "mentioned_call"
    /\ out' = ClaimMentioned(arg.claim, arg.evidence)
    /\ pc' = "mentioned_done"
    /\ UNCHANGED <<arg, parked>>

NextMentioned == ClaimMentionedCall

SpecMentioned == InitMentioned /\ [][NextMentioned]_vars

\* ------------------------------------------------- trust of a search result
TRUSTED_DOMAINS ==
    { <<"b","b","c",".","c","o","m">>,
      <<"b","b","c",".","c","o",".","u","k">>,
      <<"r","e","u","t","e","r","s",".","c","o","m">>,
      <<"a","p","n","e","w","s",".","c","o","m">>,
      <<"n","y","t","i","m","e","s",".","c","o","m">>,
      <<"e","l","p","a","i","s",".","c","o","m">>,
      <<"e","l","t","i","e","m","p","o",".","c","o","m">>,
      <<"c","n","n",".","c","o","m">>,
      <<"w","a","s","h","i","n","g","t","o","n","p","o","s","t",".","c","o","m">>,
      <<"t","h","e","g","u","a","r","d","i","a","n",".","c","o","m">> }

\* scheme_chars of urllib.parse
SchemeChars ==
    { "a","b","c","d","e","f","g","h","i","j","k","l","m","n","o","p","q","r",
      "s","t","u","v","w","x","y","z","A","B","C","D","E","F","G","H","I","J",
      "K","L","M","N","O","P","Q","R","S","T","U","V","W","X","Y","Z" }
        \cup Digits \cup {"+", "-", "."}

\* urlsplit: where the ":" that ends the scheme is, 0 when url has no scheme
\* (a scheme starts with a letter and holds scheme_chars only)
SchemeEnd(url) ==
    LET colons == { i \in 1..Len(url) : url[i] = ":" }
    IN  IF colons = {} THEN 0
        ELSE LET i == SetMin(colons)
             IN  IF /\ i > 1
                    /\ url[1] \notin Digits \cup {"+", "-", "."}
                    /\ \A j \in 1..(i - 1) : url[j] \in SchemeChars
                 THEN i ELSE 0

\* urlsplit: netloc is what follows "//" up to the first "/", "?" or "#"
Netloc(url) ==
    LET rest == SubSeq(url, SchemeEnd(url) + 1, Len(url))
        ends == { i \in 3..Len(rest) : rest[i] \in {"/", "?", "#"} }
    IN  IF Take(rest, 2) # <<"/", "/">> THEN <<>>
        ELSE IF ends = {} THEN SubSeq(rest, 3, Len(rest))
        ELSE SubSeq(rest, 3, SetMin(ends) - 1)

\* _get_domain(url): urlparse(url).netloc.lower(), and "" when urlparse
\* raises ValueError, which it does for a bracket of netloc with no partner
GetDomain(url) ==
    LET netloc == Netloc(url)
        chars == { netloc[i] : i \in 1..Len(netloc) }
    IN  IF ("[" \in chars) # ("]" \in chars) THEN <<>> ELSE Lower(netloc)

\* any(td in domain for td in self.TRUSTED_DOMAINS)
IsTrusted(domain) == \E td \in TRUSTED_DOMAINS : Contains(domain, td)

\* the URLs of the search results: scheme, user information, host, port and
\* the rest, each present or not
Urls ==
    LET schemes ==
            { <<"h","t","t","p","s",":","/","/">>,
              <<"h","t","t","p",":","/","/">>,
              <<>> }
        users ==
            { <<>>,
              <<"b","b","c",".","c","o","m","@">> }
        hosts ==
            { <<"b","b","c",".","c","o","m">>,
              <<"w","w","w",".","b","b","c",".","c","o","m">>,
              <<"W","W","W",".","B","B","C",".","C","O","M">>,
              <<"n","o","t","b","b","c",".","c","o","m">>,
              <<"b","b","c",".","c","o","m",".","e","v","i","l",".","n","e","t">>,
              <<"e","v","i","l",".","n","e","t">>,
              <<"e","l","p","a","i","s",".","c","o","m">>,
              <<"t","h","e","g","u","a","r","d","i","a","n",".","c","o","m",".","c","o">>,
              <<"[","b","b","c",".","c","o","m">>,
              <<>> }
        ports ==
            { <<>>,
              <<":","8","0","8","0">> }
        paths ==
            { <<>>,
              <<"/","a">>,
              <<"/","c","n","n",".","c","o","m","/","a">>,
              <<"?","q","=","r","e","u","t","e","r","s",".","c","o","m">> }
    IN  { s \o u \o h \o p \o q :
            s \in schemes, u \in users, h \in hosts, p \in ports,
            q \in paths }

\* one article of a search result: its url, whether the claim is mentioned in
\* title + description, whether a contradiction term occurs there, and what
\* _nli_check returns for its evidence
InitTrust ==
    /\ Parked
    /\ pc = "trust_call"
    /\ arg \in [url : Urls, mentioned : BOOLEAN, contra : BOOLEAN,
                r : {Unknown, [label |-> "entailment", score |-> NliThreshold]}]
    /\ out = [domain |-> <<>>, trusted |-> FALSE, cnt |-> [s |-> 0, c |-> 0]]

\* the body of "for a in articles" for an article with a text
TrustArticle ==
    /\ pc = "trust_call"
    /\ LET domain == GetDomain(arg.url)
           a == [trusted |-> IsTrusted(domain), mentioned |-> arg.mentioned,
                 contra |-> arg.contra, evidence |-> TRUE]
       IN  out' = [domain |-> domain, trusted |-> a.trusted,
                   cnt |-> ArticleCount([s |-> 0, c |-> 0], a, arg.r)]
    /\ pc' = "trust_done"
    /\ UNCHANGED <<arg, parked>>

NextTrust == TrustArticle

SpecTrust == InitTrust /\ [][NextTrust]_vars

\* ------------------------------------------------ the text field of a result
\* "..."
Ellipsis == <<".", ".", ".">>

\* a mutant of Truncate: a text of exactly cap characters gets the marker too
TruncateFrom(s, cap) ==
    Take(s, cap) \o (IF Len(s) >= cap THEN Ellipsis ELSE <<>>)

\* s[:cap] + ("..." if len(s) > cap else "")
Truncate(s, cap) ==
    Take(s, cap) \o (IF Len(s) > cap THEN Ellipsis ELSE <<>>)

\* extract_article_text: " ".join(paragraphs).strip()
ExtractArticleText(page) == Strip(page)

\* what analyze_news is called with
Handed == IF arg.path = "analyze_url" THEN ExtractArticleText(arg.given)
          ELSE arg.given

\* the text of a request to /analyze_text, the text of the paragraphs of the
\* page behind the url of a request to /analyze_url, or the text given to
\* analyze_news by another caller: n characters, letters or letters that end
\* in three dots, with padding
InitDisplay ==
    /\ Parked
    /\ pc = "text_call"
    /\ \E p \in {"analyze_text", "analyze_url", "analyze_news"},
          l \in 0..MaxPad, r \in 0..MaxPad, dots \in BOOLEAN,
          n \in { MinScrapedLen, UrlDisplayCap - 1, UrlDisplayCap,
                  UrlDisplayCap + 1, DisplayCap - 1, DisplayCap,
                  DisplayCap + 1 } :
        arg = [path |-> p,
               given |-> Pad(l)
                         \o (IF dots THEN Rep("a", n - Len(Ellipsis)) \o Ellipsis
                             ELSE Rep("a", n))
                         \o Pad(r)]
    /\ out = "none"

\* analyze_news: text = text.strip() and the "text" entry of the dict returned
ResultText ==
    /\ pc = "text_call"
    /\ out' = Truncate(Strip(Handed), DisplayCap)
    /\ pc' = "text_built"
    /\ UNCHANGED <<arg, parked>>

\* analyze_text_endpoint, and every other caller: the result as it is
ReturnResult ==
    /\ pc = "text_built"
    /\ arg.path # "analyze_url"
    /\ pc' = "text_done"
    /\ UNCHANGED <<arg, out, parked>>

\* analyze_url_endpoint: result["text"] is set again from scraped_text
OverrideText ==
    /\ pc = "text_built"
    /\ arg.path = "analyze_url"
    /\ out' = Truncate(Handed, UrlDisplayCap)
    /\ pc' = "text_done"
    /\ UNCHANGED <<arg, parked>>

NextDisplay ==
    \/ ResultText
    \/ ReturnResult
    \/ OverrideText

SpecDisplay == InitDisplay /\ [][NextDisplay]_vars

\* ------------------------------------------- one claim on the encyclopedia path
\* whether a person was extracted from the claim, what the search of the
\* encyclopedia did, what the checks read in claim and summary, what the
\* inference does with summary and claim, and the counts so far
InitFallback ==
    /\ Parked
    /\ pc = "fallback_call"
    /\ arg \in [person : BOOLEAN, outcome : WikiOutcomes,
                asserts_current : BOOLEAN, f : Summaries, infer : NliInferences,
                before : {[s |-> 0, c |-> 0], [s |-> 1, c |-> 2]}]
    /\ out = [label |-> "none", r |-> Unknown, cnt |-> arg.before]

\* "if not articles:" for a claim, with the model loaded
FallbackClaim ==
    /\ pc = "fallback_call"
    /\ LET w == IF arg.person
                THEN WikiCheckPerson(arg.outcome, arg.asserts_current, arg.f)
                ELSE WikiCheck(arg.outcome, arg.asserts_current, arg.f)
           n == NliCheck(w.given, TRUE, "Loaded", TRUE, TRUE, arg.infer)
       IN  out' = [label |-> w.label, r |-> n.r,
                   cnt |-> WikiCount(arg.before, w.label, n.r)]
    /\ pc' = "fallback_done"
    /\ UNCHANGED <<arg, parked>>

NextFallback == FallbackClaim

SpecFallback == InitFallback /\ [][NextFallback]_vars

\* ================================================================== claims
\* the counts the decision was taken on, at the return of analyze_news
Returned == pc = "returned"

\* the text handed over holds nothing but whitespace
AllBlank(t) == \A i \in DOMAIN t : t[i] \in {" "}

\* the number of characters of t between its first and its last
\* non-whitespace character
TrimmedLen(t) ==
    LET solid == {i \in DOMAIN t : t[i] # " "}
    IN  IF solid = {} THEN 0
        ELSE (CHOOSE i \in solid : \A j \in solid : j <= i)
             - (CHOOSE i \in solid : \A j \in solid : j >= i) + 1

\* C1: at every return the verdict is decisive exactly as the decision table
\* says: REAL with confidence min(0.95, 0.4 + 0.15*supporting) iff
\* supporting > 0 and contradicting = 0; FALSO with confidence
\* min(0.95, 0.4 + 0.15*contradicting) iff contradicting > supporting; never
\* both; 2/0 gives REAL 0.7 and 0/1 gives FALSO 0.55.
C1_DecisiveVerdict ==
    Returned =>
        /\ (label = "REAL") <=> (supporting > 0 /\ contradicting = 0)
        /\ (label = "FALSO") <=> (contradicting > supporting)
        /\ ~(supporting > 0 /\ contradicting = 0 /\ contradicting > supporting)
        /\ label = "REAL" =>
             confidence = IF 400 + 150 * supporting < 950
                          THEN 400 + 150 * supporting ELSE 950
        /\ label = "FALSO" =>
             confidence = IF 400 + 150 * contradicting < 950
                          THEN 400 + 150 * contradicting ELSE 950
        /\ (supporting = 2 /\ contradicting = 0) =>
             (label = "REAL" /\ confidence = 700)
        /\ (supporting = 0 /\ contradicting = 1) =>
             (label = "FALSO" /\ confidence = 550)

C1_Witness ==
    /\ Returned
    /\ supporting = 2
    /\ contradicting = 0
    /\ label = "REAL"
    /\ confidence = 700

\* C2 as stated: with supporting = 1 and contradicting = 2 the verdict is
\* UNKNOWN with confidence 0.45.
C2_Scenario4AsStated ==
    (Returned /\ supporting = 1 /\ contradicting = 2) =>
        (label = "DESCONOCIDO" /\ confidence = 450)

\* C2 amended: with supporting = 1 and contradicting = 2 the verdict is FALSO
\* with confidence 0.7 (contradicting > supporting takes the second row of the
\* table).
C2_Scenario4 ==
    (Returned /\ supporting = 1 /\ contradicting = 2) =>
        (label = "FALSO" /\ confidence = 700)

C2_Witness == Returned /\ supporting = 1 /\ contradicting = 2

C4_OnlyInvalidInputRaised ==
    pc = "raised" => (error = "ValueError" /\ AllBlank(raw))

\* C5: every result has a label among REAL, FALSO, DESCONOCIDO and a
\* confidence in [0, 1] that is at most 0.95, however large the counts.
C5_ResultInRange ==
    Returned =>
        /\ label \in {"REAL", "FALSO", "DESCONOCIDO"}
        /\ confidence >= 0
        /\ confidence <= 1000
        /\ confidence <= 950

\* the count is large enough for 0.4 + 0.15*n to pass the ceiling
C5_Witness ==
    /\ Returned
    /\ label = "REAL"
    /\ 400 + 150 * supporting > 950
    /\ confidence = 950

\* C6 as stated: when no search and no encyclopedia call of the request was
\* answered, no count is made and the result is UNKNOWN with confidence 0.15.
C6_UnreachableIsUnknown ==
    (Returned /\ ~reached) =>
        /\ supporting = 0
        /\ contradicting = 0
        /\ label = "DESCONOCIDO"
        /\ confidence = 150

\* C7 as stated: no input under 20 characters after trimming gets a verdict.
C7_ShortNeverAnalyzed == Returned => TrimmedLen(raw) >= 20

\* C7 amended: the endpoint /analyze_text answers every text under 20
\* characters after trimming with HTTP 400, without calling analyze_news and
\* without a verdict, and answers no other text so; analyze_news itself raises
\* ValueError only for text that is empty after trimming, and every other
\* text it is given passes its input check.
C7_MinimumLength ==
    /\ (process = "api" /\ pc # "idle" /\ TrimmedLen(raw) < 20) =>
         /\ pc = "responded"
         /\ response = "HTTP400"
         /\ label = "none"
         /\ error = "none"
         /\ invoked = {}
    /\ response = "HTTP400" => (process = "api" /\ TrimmedLen(raw) < 20)
    /\ error = "ValueError" => TrimmedLen(raw) = 0
    /\ (pc \notin {"idle", "enter"} /\ response # "HTTP400" /\ TrimmedLen(raw) > 0) =>
         error # "ValueError"

\* a text of 20 characters with 19 left after trimming is refused
C7_Witness ==
    /\ response = "HTTP400"
    /\ Len(raw) >= 20
    /\ TrimmedLen(raw) = 19

\* C8: for empty or whitespace-only text analyze_news raises ValueError
\* before anything else runs: no collaborator was called, no model loaded, no
\* language, claim or result produced.
C8_EmptyRejectedFirst ==
    (pc \notin {"idle", "enter"} /\ response # "HTTP400" /\ AllBlank(raw)) =>
        /\ pc \in {"raised", "responded"}
        /\ error = "ValueError"
        /\ invoked = {}
        /\ nli_model = "None"
        /\ nlp = "None"
        /\ lang = "none"
        /\ claims = <<>>
        /\ label = "none"
        /\ response # "result"

C8_Witness ==
    /\ pc = "raised"
    /\ error = "ValueError"
    /\ raw # <<>>
    /\ AllBlank(raw)

\* C9: whatever the order in which the relation scores of a request are
\* counted, label and confidence are those of counting them first to last.
C9_OrderIndependent ==
    Returned =>
        LET cnt == InOrder(scores, [s |-> 0, c |-> 0])
        IN  /\ supporting = cnt.s
            /\ contradicting = cnt.c
            /\ label = Decide(cnt.s, cnt.c).label
            /\ confidence = Decide(cnt.s, cnt.c).confidence

\* two scores of opposite sense were counted
C9_Witness ==
    /\ Returned
    /\ Len(scores) >= 2
    /\ supporting > 0
    /\ contradicting > 0
    /\ \E i, j \in DOMAIN scores :
        /\ CountItem([s |-> 0, c |-> 0], scores[i]) = [s |-> 1, c |-> 0]
        /\ CountItem([s |-> 0, c |-> 0], scores[j]) = [s |-> 0, c |-> 1]

\* C10: with contradicting = 0, the confidence for supporting = n + 1 is at
\* least the confidence for supporting = n, and never above 0.95.
C10_Monotone ==
    (Returned /\ contradicting = 0 /\ supporting >= 1) =>
        /\ confidence >= Decide(supporting - 1, 0).confidence
        /\ confidence <= 950

\* one more supporting score on top of three no longer raises the confidence
\* past the ceiling
C10_Witness ==
    /\ Returned
    /\ contradicting = 0
    /\ supporting = 4
    /\ confidence = 950
    /\ Decide(3, 0).confidence = 850

\* C11: the claim "Juan Pérez es el actual presidente" against a summary
\* containing "fue presidente entre 2010 y 2014" is labelled FALSO both by the
\* lookup of the extracted person and by the general lookup.
C11_Scenario5BothPaths ==
    (pc = "wiki_done" /\ arg.claim = ClaimActualPresidente
                      /\ arg.summary = SummaryFuePresidente)
        => out = "FALSO"

\* the positions of t that belong to a split: a terminator followed by
\* whitespace, and the whitespace after it
SplitPositions(t) ==
    { k \in 1..Len(t) :
        \E i \in 1..k :
            /\ t[i] \in Terminators
            /\ i < Len(t)
            /\ t[i + 1] \in Whitespace
            /\ \A m \in (i + 1)..k : t[m] \in Whitespace }

\* the positions of t that hold a terminator
TerminatorPositions(t) == { k \in 1..Len(t) : t[k] \in Terminators }

\* the trimmed maximal runs of t outside cut that are longer than 20, in order
UnitsOutside(t, cut) ==
    LET IsStart(a) == a \notin cut /\ (a = 1 \/ (a - 1) \in cut)
        starts == SelectSeq([i \in 1..Len(t) |-> i], IsStart)
        EndOf(a) == CHOOSE b \in a..Len(t) :
                        /\ \A k \in a..b : k \notin cut
                        /\ b = Len(t) \/ (b + 1) \in cut
        units == [j \in 1..Len(starts) |->
                     Strip(SubSeq(t, starts[j], EndOf(starts[j])))]
        Long(u) == Len(u) > 20
    IN  SelectSeq(units, Long)

\* the first two units when there is one, else the first 200 characters
FirstTwoOr200(t, units) ==
    IF units # <<>>
    THEN SubSeq(units, 1, IF Len(units) < 2 THEN Len(units) ELSE 2)
    ELSE <<SubSeq(t, 1, IF Len(t) < 200 THEN Len(t) ELSE 200)>>

\* C12 as stated: the units are the pieces between the characters '.', '!'
\* and '?'; the result is the first two of trimmed length > 20, or the first
\* 200 characters of the text when there is none.
C12_SplitAtEveryTerminator ==
    pc = "claims_done"
        => out = FirstTwoOr200(arg, UnitsOutside(arg, TerminatorPositions(arg)))

\* C12: extraction returns one or two claims; the units are the pieces between
\* a '.', '!' or '?' that is followed by whitespace (the split takes the
\* terminator and the whitespace after it); the result is the first two units
\* of trimmed length > 20 in their order, or exactly the first 200 characters
\* of the text when no unit is that long.
C12_ClaimExtraction ==
    pc = "claims_done"
        => /\ Len(out) \in 1..2
           /\ out = FirstTwoOr200(arg, UnitsOutside(arg, SplitPositions(arg)))

C12_Witness ==
    /\ pc = "claims_done"
    /\ Len(UnitsOutside(arg, SplitPositions(arg))) > 2
    /\ Len(out) = 2

\* the lower-cased words of t with the non-word characters removed
TokensOf(t) ==
    LET split == SplitWords(t)
    IN  [i \in 1..Len(split) |-> CleanWord(split[i])]

\* the positions of tokens longer than 4 that did not occur before
FirstOccurrences(tok) ==
    { i \in 1..Len(tok) :
        Len(tok[i]) > 4 /\ \A j \in 1..(i - 1) : tok[j] # tok[i] }

InRetrieval == pc \in {"article", "person", "wiki", "wiki_nli"}

\* C14: for each claim the search API is called at most once and only with a
\* credential; the encyclopedia is asked at most once, and once the claim is
\* done with it was asked exactly when there was no credential or the search
\* returned no document.
C14_RetrievalPolicy ==
    retrieval.claim > 0 =>
        /\ retrieval.searches <= 1
        /\ retrieval.searches = 1 => newsapi_key
        /\ retrieval.lookups <= 1
        /\ ~InRetrieval =>
             (retrieval.lookups = 1 <=> (~newsapi_key \/ retrieval.docs = 0))

\* C15: two analyze calls on the same analyzer, after any earlier calls, that
\* get the same text and the same answers from the collaborators end the same
\* way: the same label and confidence, or the same exception; the counts the
\* first call left behind do not reach the second.
C15_SameCallSameVerdict == pc = "twice_done" => out = first

C15_Witness ==
    /\ pc = "twice_done"
    /\ out.label = "FALSO"
    /\ contradicting = 2
    /\ nli_model = "Loaded"

\* the scraped text is an error sentinel or shorter than 50 characters
Unusable(t) ==
    \/ Len(t) < 50
    \/ Len(t) >= 5 /\ SubSeq(t, 1, 5) = <<"E", "r", "r", "o", "r">>

\* C16: on every path that analyzes a URL, a scraped text that starts with
\* "Error" or is shorter than 50 characters is never given to the analyzer:
\* the request ends with an extraction failure, not with a verdict.
C16_UnusableNeverAnalyzed ==
    (Unusable(raw) /\ pc # "idle")
        => pc = "responded" /\ response \in {"HTTP400", "warning"}

\* the counts after the heuristic checks that are made whatever the model
\* says: on an article of a trusted domain, one support when the claim is
\* mentioned and one contradiction when a contradiction term occurs
SecondaryChecks ==
    [s |-> arg.before.s
             + (IF arg.origin = "SEARCH_API" /\ arg.a.trusted /\ arg.a.mentioned
                THEN 1 ELSE 0),
     c |-> arg.before.c
             + (IF arg.origin = "SEARCH_API" /\ arg.a.trusted /\ arg.a.contra
                THEN 1 ELSE 0)]

\* the model gave an answer (it did not fail)
ModelAnswered == out.r.label \in {"entailment", "contradiction", "neutral"}

\* C17: the model's answer counts as one support when it is entailment with
\* confidence >= 0.65 and as one contradiction when it is contradiction with
\* confidence >= 0.65; an answer below 0.65 or neutral makes the pair NEUTRAL:
\* nothing is added for it, whatever the raw label.
C17_OnlyActionableCounts ==
    (pc = "score_done" /\ ModelAnswered) =>
        /\ (out.r.label = "entailment" /\ out.r.score >= 65)
             => out.cnt = [SecondaryChecks EXCEPT !.s = @ + 1]
        /\ (out.r.label = "contradiction" /\ out.r.score >= 65)
             => out.cnt = [SecondaryChecks EXCEPT !.c = @ + 1]
        /\ (out.r.label = "neutral" \/ out.r.score < 65)
             => out.cnt = SecondaryChecks

\* the model path failed: nothing to compare, no model, or the inference
\* raised
ModelFailed ==
    \/ ~arg.premise
    \/ ~arg.hypothesis
    \/ arg.model = "None" /\ (~arg.canImport \/ ~arg.loadOk)
    \/ arg.infer.label = "raise"

\* the counts after the heuristic path alone: the secondary checks on an
\* article, the heuristic label on an encyclopedia summary
HeuristicPath ==
    IF arg.origin = "SEARCH_API" THEN SecondaryChecks
    ELSE [s |-> arg.before.s + (IF arg.wiki_label = "REAL" THEN 1 ELSE 0),
          c |-> arg.before.c + (IF arg.wiki_label = "FALSO" THEN 1 ELSE 0)]

\* C19: when premise or hypothesis is empty, the model cannot be loaded or
\* the inference raises, _nli_check returns unknown with confidence 0; every
\* unknown has confidence 0 and every confidence is within [0, 1]; after an
\* unknown the counts are those of the heuristic path.
C19_FailsClosed ==
    pc = "score_done" =>
        /\ ModelFailed => (out.r.label = "unknown" /\ out.r.score = 0)
        /\ out.r.label = "unknown" => out.r.score = 0
        /\ out.r.score \in 0..100
        /\ out.r.label \in {"entailment", "contradiction", "neutral", "unknown"}
        /\ out.r.label = "unknown" => out.cnt = HeuristicPath

C19_Witness ==
    /\ pc = "score_done"
    /\ arg.premise /\ arg.hypothesis
    /\ arg.model = "Loaded"
    /\ arg.infer.label = "raise"
    /\ arg.origin = "ENCYCLOPEDIA"
    /\ arg.wiki_label = "FALSO"
    /\ out.cnt.c = arg.before.c + 1

\* the tokens of the claim longer than 3, and how many of them occur in the
\* evidence
ClaimTokens == SelectSeq(FindWords(arg.claim), LongToken)
TokensPresent ==
    Cardinality({ i \in 1..Len(ClaimTokens) :
                    Contains(arg.evidence, ClaimTokens[i]) })

\* C18: with n >= 1 tokens of length > 3 in the claim, _claim_mentioned is
\* true exactly when at least 40% of them occur in the evidence text
\* (present * 10 >= 4 * n); with n = 0 it is false.
C18_FortyPercentOverlap ==
    pc = "mentioned_done" =>
        (out <=> (Len(ClaimTokens) >= 1
                    /\ TokensPresent * 10 >= 4 * Len(ClaimTokens)))

\* C20: in one process the entailment model is loaded at most once: once the
\* handle holds the loaded model, every later step and every later request
\* finds it there; nothing resets or reloads it.
C20_LoadedOnce == [][nli_model = "Loaded" => nli_model' = "Loaded"]_vars

\* the host of a URL: of its netloc the part after the last "@" and before the
\* first ":", in lower case; none when the URL is not valid
HostOf(url) ==
    LET loc == GetDomain(url)
        ats == { i \in 1..Len(loc) : loc[i] = "@" }
        hostinfo == IF ats = {} THEN loc
                    ELSE SubSeq(loc, 1 + (CHOOSE i \in ats : \A j \in ats : j <= i),
                                Len(loc))
        colons == { i \in 1..Len(hostinfo) : hostinfo[i] = ":" }
    IN  IF colons = {} THEN hostinfo
        ELSE SubSeq(hostinfo, 1, SetMin(colons) - 1)

\* host is a domain of the allow-list or a subdomain of one
AllowListed(host) ==
    \E td \in TRUSTED_DOMAINS :
        \/ host = td
        \/ /\ Len(host) > Len(td)
           /\ SubSeq(host, Len(host) - Len(td), Len(host)) = <<".">> \o td

\* C21: a search result is trusted iff the host of its URL is a domain of the
\* allow-list or a subdomain of one; an article whose host is not on the list
\* gets no count from the lexical-overlap or the contradiction-term check, so
\* it changes the counts only through an actionable answer of the model.
C21_TrustedIffAllowListed ==
    pc = "trust_done" =>
        /\ out.trusted <=> AllowListed(HostOf(arg.url))
        /\ ~AllowListed(HostOf(arg.url)) =>
             out.cnt = NliCount([s |-> 0, c |-> 0], arg.r)

\* the text field is t when t has at most cap characters, and otherwise the
\* first cap characters of t followed by "..."
CutAt(field, t, cap) ==
    IF Len(t) <= cap THEN field = t
    ELSE /\ Len(field) = cap + Len(Ellipsis)
         /\ \A i \in 1..cap : field[i] = t[i]
         /\ \A i \in 1..Len(Ellipsis) : field[cap + i] = Ellipsis[i]

\* C22 as stated: on every path that returns a result the text field is the
\* trimmed input when that has at most 2000 characters, and else its first
\* 2000 characters followed by "..."; the marker is added iff the text was cut.
C22_CapOf2000Everywhere ==
    pc = "text_done" => CutAt(out, Strip(arg.given), DisplayCap)

\* C22: the text field is the trimmed input when that has at most cap
\* characters, and else its first cap characters followed by "..."; cap is
\* 1000 on the results of /analyze_url and 2000 on every other result; the
\* marker is added iff the text was cut.
C22_TextField ==
    pc = "text_done" =>
        CutAt(out, Strip(arg.given),
              IF arg.path = "analyze_url" THEN UrlDisplayCap ELSE DisplayCap)

\* /analyze_url returned a result for a page of 1001 characters: the
\* text field is its first 1000 characters and the marker
C22_Witness ==
    /\ pc = "text_done"
    /\ arg.path = "analyze_url"
    /\ Len(Strip(arg.given)) = UrlDisplayCap + 1
    /\ Len(out) = UrlDisplayCap + Len(Ellipsis)

\* what the step adds to supporting and to contradicting
AddedSupporting == supporting' - supporting
AddedContradicting == contradicting' - contradicting

\* C23: the summary of the encyclopedia adds at most 1 to supporting +
\* contradicting for its claim; one article of a search result adds at most 2
\* to supporting, at most 2 to contradicting and at most 3 to both together;
\* no step of either kind lowers a count; a result returned without a search
\* credential has supporting + contradicting <= number of claims <= 2 and a
\* confidence of at most 0.70.
C23_ContributionBound ==
    [][ /\ pc = "wiki_nli" =>
            /\ AddedSupporting \in 0..1
            /\ AddedContradicting \in 0..1
            /\ AddedSupporting + AddedContradicting <= 1
        /\ pc = "article" =>
            /\ AddedSupporting \in 0..2
            /\ AddedContradicting \in 0..2
            /\ AddedSupporting + AddedContradicting <= 3
        /\ (pc' = "returned" /\ ~newsapi_key') =>
            /\ supporting' + contradicting' <= Len(claims')
            /\ Len(claims') <= MaxClaims
            /\ confidence' <= ConfBase + ConfStep * MaxClaims ]_vars

\* a search returned one article for the only claim and the result has
\* supporting = 2 and contradicting = 1: three counts from one article
C23_Witness ==
    /\ Returned
    /\ newsapi_key
    /\ Len(claims) = 1
    /\ retrieval.docs = 1
    /\ supporting = 2
    /\ contradicting = 1

\* the claim asserts a current office and the summary speaks of the office in
\* the past: "fue presidente", or a year without "presidente desde <year>"
PastTenure ==
    arg.asserts_current
        /\ (arg.f.fuePresidente \/ (arg.f.years /\ ~arg.f.desde))

\* the claim asserts a current office and the summary has "presidente desde
\* <year>", no "fue" and nothing that speaks of the past
OpenTenure ==
    arg.asserts_current /\ ~PastTenure /\ arg.f.desde /\ ~arg.f.fue

\* the encyclopedia path ended for the claim and the model's answer did not
\* count
HeuristicDecided == pc = "fallback_done" /\ ~Actionable(out.r)

OneMoreContradicting == [arg.before EXCEPT !.c = @ + 1]
OneMoreSupporting == [arg.before EXCEPT !.s = @ + 1]

\* C24 as stated: with a model answer that is not actionable, the label is
\* DESCONOCIDO only when the search found nothing or raised; a retrieved
\* summary gives exactly one count: contradicting when the temporal check
\* finds the past or a contradiction term occurs, else supporting.
C24_TermAlwaysContradicts ==
    HeuristicDecided =>
        /\ out.label = "DESCONOCIDO" => arg.outcome \in {"no_results", "raise"}
        /\ arg.outcome = "summary" =>
             out.cnt = IF PastTenure \/ arg.f.contra
                       THEN OneMoreContradicting ELSE OneMoreSupporting

\* C24: with a model answer that is not actionable, the label is DESCONOCIDO
\* exactly when the search found nothing or raised, and then nothing is
\* counted; a retrieved summary gives exactly one count: contradicting when
\* the temporal check finds the past, or when a contradiction term occurs and
\* the temporal check has not found an open "presidente desde <year>";
\* supporting in every other case, also for a summary with none of the cues.
C24_OneCountPerSummary ==
    HeuristicDecided =>
        /\ out.label = "DESCONOCIDO" <=> arg.outcome \in {"no_results", "raise"}
        /\ arg.outcome # "summary" => out.cnt = arg.before
        /\ arg.outcome = "summary" =>
             out.cnt = IF PastTenure \/ (arg.f.contra /\ ~OpenTenure)
                       THEN OneMoreContradicting ELSE OneMoreSupporting

\* a summary with "presidente desde <year>" and a contradiction term, for a
\* claim that asserts the current office: one support
C24_Witness ==
    /\ HeuristicDecided
    /\ arg.outcome = "summary"
    /\ OpenTenure
    /\ arg.f.contra
    /\ out.label = "REAL"
    /\ out.cnt = OneMoreSupporting

====
